---- MODULE Spec2Model ----
(***************************************************************************)
(* Model of the two scraping scripts of the repository:                    *)
(*   code/1_summarizer_local_model.py   (Website, WebsiteSummarizer)       *)
(*   code/3_brochure_builder_with_ui.py (Website, get_links,               *)
(*       get_all_details, get_brochure_user_prompt, create_brochure)       *)
(*                                                                         *)
(* The web and the chat-completion endpoint are the environment: every     *)
(* HTTP GET and every completion call draws its outcome from a small set.  *)
(* A Python string is a sequence of chunks [s |-> text, n |-> length]: a   *)
(* literal is one chunk holding its own text, a page body or a model reply *)
(* is one chunk holding a name and the number of characters it stands for. *)
(* A chunk whose n is smaller than the text it names is a prefix of it.    *)
(***************************************************************************)
EXTENDS Naturals, Sequences, FiniteSets, TLC

(* ------------------------------ bounds -------------------------------- *)

\* longest "links" list a classifier reply carries
MaxLinks == 2

(* ------------------------------ strings ------------------------------- *)

Lit(t) == IF t = "" THEN <<>> ELSE <<[s |-> t, n |-> Len(t)]>>

Blob(name, k) == IF k = 0 THEN <<>> ELSE <<[s |-> name, n |-> k]>>

RECURSIVE StrLen(_)
StrLen(str) == IF str = <<>> THEN 0 ELSE Head(str).n + StrLen(Tail(str))

\* str[:k]
RECURSIVE Take(_, _)
Take(str, k) ==
    IF k = 0 \/ str = <<>> THEN <<>>
    ELSE IF Head(str).n <= k
         THEN <<Head(str)>> \o Take(Tail(str), k - Head(str).n)
         ELSE <<[s |-> Head(str).s, n |-> k]>>

\* an attribute that no assignment has set yet
Unset == <<[s |-> "<unset attribute>", n |-> 0]>>

NoException == "None"

(* --------------------------- the environment -------------------------- *)

\* HTML documents a GET can return
NoPage == [hasTitle |-> FALSE, title |-> "", pad |-> 0, hasBody |-> FALSE,
           body |-> 0, nav |-> 0, hrefs |-> <<>>]

Pages ==
    { [hasTitle |-> TRUE, title |-> "Acme", pad |-> 1, hasBody |-> TRUE,
       body |-> 2600, nav |-> 40, hrefs |-> <<"/about", "/", "/about">>],
      NoPage }

\* what requests.get / raise_for_status raise
FetchErrors == {"ConnectionError", "ReadTimeout", "HTTPError 404"}

Responses ==
    [ok : {TRUE}, err : {""}, page : Pages]
        \cup [ok : {FALSE}, err : FetchErrors, page : {NoPage}]

\* what chat.completions.create, or reading choices[0] of its reply, raises
CallErrors == {"APIConnectionError", "AuthenticationError", "IndexError"}

ModelOutput == Blob("model output", 300)

SummaryUrls == {"https://x.com", "https://down.example"}

LandingUrls == {"https://x.com"}

CompanyNames == {Lit("Acme"), Blob("a very long company name", 5100)}

\* {type, url} records a classifier reply can hold
LinkRecords ==
    { [type |-> "about page",   url |-> "https://x.com/about"],
      [type |-> "company page", url |-> "https://x.com"],
      [type |-> "home",         url |-> "/"],
      [type |-> "blank",        url |-> ""],
      [type |-> "anchor",       url |-> "#"] }

LinkLists == UNION { [1..k -> LinkRecords] : k \in 0..MaxLinks }

\* the text of the classifier's reply: json says whether json.loads accepts
\* it, hasLinks whether the decoded object has a "links" key
ClassifierReplies ==
    { [json |-> FALSE, hasLinks |-> FALSE, links |-> <<>>],
      [json |-> TRUE,  hasLinks |-> FALSE, links |-> <<>>] }
        \cup [json : {TRUE}, hasLinks : {TRUE}, links : LinkLists]

\* random.uniform(1, 2), in tenths of a second
Delays == {10, 20}

(* ------------------- 1_summarizer_local_model.py ---------------------- *)

\* the try block of Website.__init__ when no statement of it raises
SParse(u, page) ==
    [url |-> u,
     title |-> IF page.hasTitle
               THEN Blob(" ", page.pad) \o Lit(page.title) \o Blob(" ", page.pad)
               ELSE Lit("No title found"),
     text |-> IF page.hasBody
              THEN Blob("body text", page.body)
              ELSE Lit("No body content found")]

\* Website.__init__: the object it builds and the exception it lets out
SWebsiteNoHandler(u, resp) ==
    IF resp.ok
    THEN [exc |-> NoException, obj |-> SParse(u, resp.page)]
    ELSE [exc |-> resp.err, obj |-> [url |-> u, title |-> Unset, text |-> Unset]]

SWebsite(u, resp) ==
    IF resp.ok
    THEN [exc |-> NoException, obj |-> SParse(u, resp.page)]
    ELSE [exc |-> NoException,
          obj |-> [url |-> u,
                   title |-> Lit("Error: ") \o Lit(resp.err),
                   text |-> Lit("Failed to fetch website content: ")
                                \o Lit(resp.err)]]

_create_user_prompt(w) ==
    Lit("You are looking at a website titled ") \o w.title
        \o Lit("\nThe contents of this website is as follows; please provide a short summary \nof this website in markdown. If it includes news or announcements, \nthen summarize these too.\n\n")
        \o w.text

SummaryError(e) ==
    Lit("## Error Generating Summary\nFailed to generate summary: ") \o Lit(e)

(* ------------------- 3_brochure_builder_with_ui.py -------------------- *)

DefaultWebsite(u) ==
    [url |-> u, title |-> Lit("No title found"), text |-> <<>>, links |-> <<>>]

\* the try block of _fetch_and_parse when no statement of it raises; the
\* brochure builder strips the title and keeps nav and footer text
BParse(u, page) ==
    [url |-> u,
     title |-> IF page.hasTitle /\ page.title # ""
               THEN Lit(page.title)
               ELSE Lit("No title found"),
     text |-> IF page.hasBody
              THEN Blob("body text", page.body)
                       \o Blob("nav and footer text", page.nav)
              ELSE <<>>,
     links |-> page.hrefs]

\* Website.__init__ with _fetch_and_parse
BWebsiteRaises(u, resp) ==
    IF resp.ok
    THEN [exc |-> NoException, obj |-> BParse(u, resp.page)]
    ELSE [exc |-> resp.err, obj |-> DefaultWebsite(u)]

BWebsite(u, resp) ==
    IF resp.ok
    THEN [exc |-> NoException, obj |-> BParse(u, resp.page)]
    ELSE [exc |-> NoException, obj |-> DefaultWebsite(u)]

get_contents(w) ==
    Lit("Webpage Title:\n") \o w.title \o Lit("\nWebpage Contents:\n")
        \o w.text \o Lit("\n\n")

\* the condition of the if in get_all_details' loop
FollowSlash(link) == link.url # ""

Follow(link) == link.url # "" /\ link.url # "/" /\ Len(link.url) > 1

Label(link) == Lit("\n\n") \o Lit(link.type) \o Lit("\n")

Limit == 5000

TruncateOff(str) == str

Truncate(str) == Take(str, Limit)

BrochureHeader(name) ==
    Lit("You are looking at a company called: ") \o name \o Lit("\n")
        \o Lit("Here are the contents of its landing page and other relevant pages; use this information to build a short brochure of the company in markdown.\n")


RECURSIVE JoinLines(_)
JoinLines(hrefs) ==
    IF hrefs = <<>> THEN <<>>
    ELSE IF Len(hrefs) = 1 THEN Lit(hrefs[1])
    ELSE Lit(hrefs[1]) \o Lit("\n") \o JoinLines(Tail(hrefs))

get_links_user_prompt(w) ==
    Lit("Here is the list of links on the website of ") \o Lit(w.url)
        \o Lit(" - please decide which of these are relevant web links for a brochure about the company, respond with the full https URL in JSON format. Do not include Terms of Service, Privacy, email links.\nLinks (some might be relative links):\n")
        \o JoinLines(w.links)

get_brochure_user_prompt(name, details) ==
    Truncate(BrochureHeader(name) \o details)

(* ------------------------------- state -------------------------------- *)

VARIABLES
    entry,         \* the top-level function that was invoked
    pc,            \* position of the one running invocation
    url,           \* the url argument of summarize / create_brochure
    company_name,  \* the company_name argument of create_brochure
    website,       \* the Website object built last
    links,         \* the list get_all_details iterates over
    i,             \* index in links of the link the loop is at
    result,        \* get_all_details' result string
    user_prompt,   \* what get_brochure_user_prompt returned
    ret,           \* the value returned to the caller
    exc,           \* the exception that reached the caller
    log            \* the I/O done so far: GETs, sleeps, completion calls

vars == <<entry, pc, url, company_name, website, links, i, result, user_prompt,
          ret, exc, log>>

NoWebsite == [url |-> "", title |-> Unset, text |-> Unset]

Get(u, resp, w)   == [op |-> "GET", url |-> u, ok |-> resp.ok, site |-> w]
Sleep(d)          == [op |-> "sleep", d |-> d]
Chat(c, msg, ok, reply) ==
    [op |-> "chat", call |-> c, user |-> msg, ok |-> ok, reply |-> reply]

\* the HTTP requests one Website(u) issues
RequestsWithRetry(u, resp, w) ==
    IF resp.ok THEN <<Get(u, resp, w)>> ELSE <<Get(u, resp, w), Get(u, resp, w)>>

Requests(u, resp, w) == <<Get(u, resp, w)>>

Init ==
    /\ entry = ""
    /\ pc = "idle"
    /\ url = ""
    /\ company_name = <<>>
    /\ website = NoWebsite
    /\ links = <<>>
    /\ i = 1
    /\ result = <<>>
    /\ user_prompt = <<>>
    /\ ret = <<>>
    /\ exc = NoException
    /\ log = <<>>

Raise(e) ==
    /\ pc' = "raised"
    /\ exc' = e

(* ----------------------- summarizer: summarize ------------------------ *)

\* summarize(url) is called
Summarize ==
    /\ pc = "idle"
    /\ \E u \in SummaryUrls : url' = u
    /\ pc' = "s_fetch"
    /\ entry' = "summarize"
    /\ UNCHANGED <<company_name, website, links, i, result, user_prompt,
                   ret, exc, log>>

\* website = Website(url)
SummarizeFetch ==
    /\ pc = "s_fetch"
    /\ \E resp \in Responses :
         LET r == SWebsite(url, resp) IN
           /\ log' = log \o Requests(url, resp, r.obj)
           /\ website' = r.obj
           /\ IF r.exc # NoException
              THEN Raise(r.exc)
              ELSE pc' = "s_complete" /\ exc' = exc
    /\ UNCHANGED <<entry, url, company_name, links, i, result, user_prompt, ret>>

\* the except clause of summarize, for a completion call that raised e
SummarizeRecover(e) == [exc |-> NoException, ret |-> SummaryError(e)]

\* the try block of summarize: the completion call and its except clause
SummarizeComplete ==
    /\ pc = "s_complete"
    /\ \/ /\ log' = Append(log, Chat("summary", _create_user_prompt(website), TRUE, ModelOutput))
          /\ ret' = ModelOutput
          /\ pc' = "done"
          /\ exc' = exc
       \/ \E e \in CallErrors :
            LET r == SummarizeRecover(e) IN
              /\ log' = Append(log, Chat("summary", _create_user_prompt(website), FALSE, <<>>))
              /\ ret' = r.ret
              /\ IF r.exc # NoException
                 THEN Raise(r.exc)
                 ELSE pc' = "done" /\ exc' = exc
    /\ UNCHANGED <<entry, url, company_name, website, links, i, result, user_prompt>>

(* --------------------- brochure: create_brochure ---------------------- *)

\* create_brochure(company_name, url) is called; the evaluation of the
\* completion call's arguments enters get_brochure_user_prompt and
\* get_all_details, which sets result = "Landing page:\n"
CreateBrochure ==
    /\ pc = "idle"
    /\ \E u \in LandingUrls : url' = u
    /\ \E name \in CompanyNames : company_name' = name
    /\ result' = Lit("Landing page:\n")
    /\ pc' = "b_landing"
    /\ entry' = "create_brochure"
    /\ UNCHANGED <<website, links, i, user_prompt, ret, exc, log>>

\* get_all_details: website = Website(url); result += website.get_contents()
FetchLanding ==
    /\ pc = "b_landing"
    /\ \E resp \in Responses :
         LET r == BWebsite(url, resp) IN
           /\ log' = log \o Requests(url, resp, r.obj)
           /\ website' = r.obj
           /\ IF r.exc # NoException
              THEN Raise(r.exc) /\ result' = result
              ELSE /\ result' = result \o get_contents(r.obj)
                   /\ pc' = "b_get_links"
                   /\ exc' = exc
    /\ UNCHANGED <<entry, url, company_name, links, i, user_prompt, ret>>

\* get_links: website = Website(url)
GetLinksFetch ==
    /\ pc = "b_get_links"
    /\ \E resp \in Responses :
         LET r == BWebsite(url, resp) IN
           /\ log' = log \o Requests(url, resp, r.obj)
           /\ website' = r.obj
           /\ IF r.exc # NoException
              THEN Raise(r.exc)
              ELSE pc' = "b_classify" /\ exc' = exc
    /\ UNCHANGED <<entry, url, company_name, links, i, result, user_prompt, ret>>

\* json.loads(result) in get_links, then links.get("links", [])
DecodeLenient(reply) == [exc |-> NoException, links |-> reply.links]

Decode(reply) ==
    IF reply.json
    THEN [exc |-> NoException,
          links |-> IF reply.hasLinks THEN reply.links ELSE <<>>]
    ELSE [exc |-> "JSONDecodeError", links |-> <<>>]

\* get_links: the classifier's completion call and the decoding of its reply
Classify ==
    /\ pc = "b_classify"
    /\ \/ \E e \in CallErrors :
            /\ log' = Append(log, Chat("classifier", get_links_user_prompt(website), FALSE, <<>>))
            /\ Raise(e)
            /\ links' = links
       \/ \E reply \in ClassifierReplies :
            LET r == Decode(reply) IN
              /\ log' = Append(log, Chat("classifier", get_links_user_prompt(website), TRUE, reply))
              /\ IF r.exc # NoException
                 THEN Raise(r.exc) /\ links' = links
                 ELSE links' = r.links /\ pc' = "b_loop" /\ exc' = exc
    /\ i' = 1
    /\ UNCHANGED <<entry, url, company_name, website, result, user_prompt, ret>>

\* the for statement of get_all_details: the link after links[k]
NextLinkSkipping(k) == k + 2

NextLink(k) == k + 1

\* time.sleep(random.uniform(1, 2)): the pause taken before a link's fetch
PaceNone(d) == <<>>

Pace(d) == <<Sleep(d)>>

\* result += f"\n\n{link['type']}\n"; result += Website(...).get_contents()
AppendSectionFirst(res, link, w) == Label(link) \o get_contents(w) \o res

AppendSection(res, link, w) == res \o Label(link) \o get_contents(w)

\* the loop reaches a link that the if rejects
SkipLink ==
    /\ pc = "b_loop"
    /\ i <= Len(links)
    /\ ~Follow(links[i])
    /\ i' = NextLink(i)
    /\ UNCHANGED <<entry, pc, url, company_name, website, links, result,
                   user_prompt, ret, exc, log>>

\* the loop reaches a link that the if accepts: the sleep
Delay ==
    /\ pc = "b_loop"
    /\ i <= Len(links)
    /\ Follow(links[i])
    /\ \E d \in Delays : log' = log \o Pace(d)
    /\ pc' = "b_follow"
    /\ UNCHANGED <<entry, url, company_name, website, links, i, result,
                   user_prompt, ret, exc>>

\* the rest of the if's body: the label, the fetch and the page's contents
FollowLink ==
    /\ pc = "b_follow"
    /\ \E resp \in Responses :
         LET r == BWebsite(links[i].url, resp) IN
           /\ log' = log \o Requests(links[i].url, resp, r.obj)
           /\ website' = r.obj
           /\ IF r.exc # NoException
              THEN Raise(r.exc) /\ result' = result \o Label(links[i]) /\ i' = i
              ELSE /\ result' = AppendSection(result, links[i], r.obj)
                   /\ i' = NextLink(i)
                   /\ pc' = "b_loop"
                   /\ exc' = exc
    /\ UNCHANGED <<entry, url, company_name, links, user_prompt, ret>>

\* the loop is over: get_all_details returns result and
\* get_brochure_user_prompt returns the truncated prompt
ReturnPrompt ==
    /\ pc = "b_loop"
    /\ i > Len(links)
    /\ user_prompt' = get_brochure_user_prompt(company_name, result)
    /\ pc' = "b_complete"
    /\ UNCHANGED <<entry, url, company_name, website, links, i, result, ret, exc, log>>

\* what create_brochure does with a completion call that raised e: it has
\* no try statement
BrochureRecover(e) == [exc |-> e, ret |-> <<>>]

\* create_brochure: the completion call and the return
BrochureComplete ==
    /\ pc = "b_complete"
    /\ \/ /\ log' = Append(log, Chat("brochure", user_prompt, TRUE, ModelOutput))
          /\ ret' = ModelOutput
          /\ pc' = "done"
          /\ exc' = exc
       \/ \E e \in CallErrors :
            LET r == BrochureRecover(e) IN
              /\ log' = Append(log, Chat("brochure", user_prompt, FALSE, <<>>))
              /\ ret' = r.ret
              /\ IF r.exc # NoException
                 THEN Raise(r.exc)
                 ELSE pc' = "done" /\ exc' = exc
    /\ UNCHANGED <<entry, url, company_name, website, links, i, result, user_prompt>>

Next ==
    \/ Summarize
    \/ SummarizeFetch
    \/ SummarizeComplete
    \/ CreateBrochure
    \/ FetchLanding
    \/ GetLinksFetch
    \/ Classify
    \/ SkipLink
    \/ Delay
    \/ FollowLink
    \/ ReturnPrompt
    \/ BrochureComplete

Spec == Init /\ [][Next]_vars

(* ------------------------- reading the log ---------------------------- *)

IsGet(e)   == e.op = "GET"
IsSleep(e) == e.op = "sleep"
IsChat(e, c) == e.op = "chat" /\ e.call = c

Called(c) == \E k \in 1..Len(log) : IsChat(log[k], c)

\* position of the classifier's completion call in the log, 0 before it
ClassifierAt ==
    IF Called("classifier")
    THEN CHOOSE k \in 1..Len(log) : IsChat(log[k], "classifier")
    ELSE 0

\* the I/O of the loop of get_all_details
LoopLog ==
    IF Called("classifier") THEN SubSeq(log, ClassifierAt + 1, Len(log)) ELSE <<>>

LinkGets == SelectSeq(LoopLog, IsGet)

Sleeps == SelectSeq(log, IsSleep)

\* the follow filter as the specification words it
Skipped(link) == link.url = "" \/ link.url = "/" \/ Len(link.url) = 1

Followed(link) == ~Skipped(link)

\* the links the loop is done with
Handled == SubSeq(links, 1, i - 1)

InLoop == entry = "create_brochure" /\ pc \in {"b_loop", "b_follow"}

\* get_all_details has returned
LoopDone ==
    entry = "create_brochure" /\ (pc = "b_complete" \/ Called("brochure"))

\* p is a prefix of str, character by character
RECURSIVE CharPrefix(_, _)
CharPrefix(p, str) ==
    IF p = <<>> THEN TRUE
    ELSE IF str = <<>> THEN FALSE
    ELSE /\ Head(p).s = Head(str).s
         /\ IF Len(p) = 1
            THEN Head(p).n <= Head(str).n
            ELSE Head(p).n = Head(str).n /\ CharPrefix(Tail(p), Tail(str))

\* the sections of the links ls, whose pages were fetched by the GETs gs
RECURSIVE Sections(_, _)
Sections(ls, gs) ==
    IF ls = <<>> \/ gs = <<>> THEN <<>>
    ELSE Lit("\n\n") \o Lit(Head(ls).type) \o Lit("\n")
             \o Lit("Webpage Title:\n") \o Head(gs).site.title
             \o Lit("\nWebpage Contents:\n") \o Head(gs).site.text \o Lit("\n\n")
             \o Sections(Tail(ls), Tail(gs))

(* ------------------------------ claims -------------------------------- *)

\* C1: the user message get_brochure_user_prompt returns, and create_brochure
\* sends, is never longer than 5000 characters: it is the first 5000
\* characters of header + aggregated content when that is longer than 5000,
\* and the whole of it otherwise.
C1_PromptBounded ==
    LoopDone =>
      LET full == Lit("You are looking at a company called: ") \o company_name
                      \o Lit("\n")
                      \o Lit("Here are the contents of its landing page and other relevant pages; use this information to build a short brochure of the company in markdown.\n")
                      \o result
      IN /\ StrLen(user_prompt) <= 5000
         /\ CharPrefix(user_prompt, full)
         /\ StrLen(full) > 5000 => StrLen(user_prompt) = 5000
         /\ StrLen(full) <= 5000 => user_prompt = full
         /\ \A k \in 1..Len(log) :
              IsChat(log[k], "brochure") => log[k].user = user_prompt

\* a prompt that was cut inside a page, and one that was cut inside the name
C1_Witness ==
    /\ LoopDone /\ Called("brochure")
    /\ StrLen(BrochureHeader(company_name) \o result) > 5000
    /\ StrLen(user_prompt) = 5000
    /\ Len(LinkGets) >= 1

\* C2: in the summarizer a failed fetch never raises out of Website(url): the
\* object has title and text set, the title starts with "Error" and the text
\* carries the failure message.
C2_FetchFailureMarked ==
    (entry = "summarize" /\ Len(log) >= 1 /\ ~log[1].ok) =>
      /\ exc \notin FetchErrors
      /\ pc \in {"s_complete", "done"}
      /\ website = log[1].site
      /\ website.title # Unset /\ website.text # Unset
      /\ Head(website.title) = [s |-> "Error: ", n |-> 7]
      /\ \E e \in FetchErrors :
           /\ website.title = Lit("Error: ") \o Lit(e)
           /\ website.text = Lit("Failed to fetch website content: ") \o Lit(e)

C2_Witness ==
    /\ entry = "summarize" /\ pc = "done"
    /\ ~log[1].ok
    /\ log[2].ok

\* C3: a classified link whose url is empty, "/" or one character long is
\* skipped with no fetch, no delay and nothing appended; every other link
\* gets its delay and then the fetch of its url.
C3_SkipFilter ==
    [][ /\ (pc = "b_loop" /\ i <= Len(links) /\ Skipped(links[i])) =>
             /\ log' = log /\ result' = result /\ website' = website
             /\ pc' = "b_loop" /\ i' = i + 1
        /\ (pc = "b_loop" /\ i <= Len(links) /\ Followed(links[i])) =>
             /\ Len(log') = Len(log) + 1 /\ IsSleep(log'[Len(log')])
             /\ pc' = "b_follow" /\ i' = i
        /\ pc = "b_follow" =>
             /\ Followed(links[i])
             /\ Len(log') = Len(log) + 1 /\ IsGet(log'[Len(log')])
             /\ log'[Len(log')].url = links[i].url
      ]_vars

\* a finished loop that skipped a "/" link and followed another link
C3_Witness ==
    /\ LoopDone
    /\ \E k \in 1..Len(links) : links[k].url = "/"
    /\ \E k \in 1..Len(links) : Followed(links[k])
    /\ Len(LinkGets) = 1

\* C4: the pages fetched beyond the landing page are the classified links
\* that pass the follow filter, one fetch each; a reply holding one
\* followable link {type: T, url: U} makes exactly one such fetch, of U, and
\* appends its content labeled T.
C4_OneFetchPerFollowedLink ==
    LoopDone =>
      LET fl == SelectSeq(links, Followed) IN
        /\ Len(LinkGets) = Len(fl)
        /\ \A k \in 1..Len(fl) : LinkGets[k].url = fl[k].url
        /\ (Len(links) = 1 /\ Followed(links[1])) =>
             /\ Len(LinkGets) = 1
             /\ LinkGets[1].url = links[1].url
             /\ result = Lit("Landing page:\n") \o get_contents(log[1].site)
                            \o Lit("\n\n") \o Lit(links[1].type) \o Lit("\n")
                            \o get_contents(LinkGets[1].site)

C4_Witness ==
    /\ LoopDone
    /\ links = <<[type |-> "about page", url |-> "https://x.com/about"]>>
    /\ Len(LinkGets) = 1
    /\ LinkGets[1].ok

\* C5: a failed completion call is recovered locally in summarize and in
\* create_brochure: an error string embedding the failure detail is returned
\* and no exception reaches the caller.
C5_CompletionFailureRecovered ==
    \A k \in 1..Len(log) :
      ((IsChat(log[k], "summary") \/ IsChat(log[k], "brochure")) /\ ~log[k].ok) =>
        /\ pc = "done"
        /\ exc = NoException
        /\ \E e \in CallErrors : Len(ret) >= 1 /\ ret[Len(ret)] = Head(Lit(e))

\* the summarizer's half of C5, which the code does implement
C5_SummarizerRecovers ==
    \A k \in 1..Len(log) :
      (IsChat(log[k], "summary") /\ ~log[k].ok) =>
        /\ pc = "done"
        /\ exc = NoException
        /\ \E e \in CallErrors : ret = SummaryError(e)

\* C6: a classifier reply that is not JSON is handled nowhere: the failure
\* reaches the caller of create_brochure, and in that run no classified link
\* is fetched, no delay is taken and the brochure call is never issued.
C6_DecodeFailureAborts ==
    \A k \in 1..Len(log) :
      (IsChat(log[k], "classifier") /\ log[k].ok /\ ~log[k].reply.json) =>
        /\ pc = "raised"
        /\ exc = "JSONDecodeError"
        /\ k = Len(log)
        /\ LinkGets = <<>> /\ Sleeps = <<>> /\ ~Called("brochure")
        /\ ret = <<>> /\ user_prompt = <<>>

C6_Witness ==
    /\ entry = "create_brochure"
    /\ Called("classifier")
    /\ log[ClassifierAt].ok /\ ~log[ClassifierAt].reply.json
    /\ pc = "raised"

\* C7: a failed fetch of a followed link does not abort aggregation: the
\* Website has its default fields, the link's label and the default content
\* block are appended, and the loop goes on to the next link.
C7_LinkFailureDegrades ==
    [][ (pc = "b_follow" /\ ~log'[Len(log')].ok) =>
          /\ website' = [url |-> links[i].url, title |-> Lit("No title found"),
                         text |-> <<>>, links |-> <<>>]
          /\ log'[Len(log')].site = website'
          /\ result' = result \o Lit("\n\n") \o Lit(links[i].type) \o Lit("\n")
                           \o Lit("Webpage Title:\n") \o Lit("No title found")
                           \o Lit("\nWebpage Contents:\n") \o Lit("\n\n")
          /\ pc' = "b_loop" /\ i' = i + 1
          /\ exc' = NoException
      ]_vars

\* a failed link fetch followed by the fetch of a later link
C7_Witness ==
    /\ InLoop
    /\ Len(LinkGets) = 2
    /\ ~LinkGets[1].ok
    /\ LinkGets[2].ok

\* C8: the document starts with "Landing page:" and the landing page's
\* content; the followed links' sections come after it in the classifier's
\* order, one per occurrence (a url listed twice is fetched and appended
\* twice).
C8_DocumentOrder ==
    (InLoop \/ LoopDone) =>
      LET fl == SelectSeq(Handled, Followed) IN
        /\ IsGet(log[1]) /\ log[1].url = url
        /\ result = Lit("Landing page:\n")
                        \o Lit("Webpage Title:\n") \o log[1].site.title
                        \o Lit("\nWebpage Contents:\n") \o log[1].site.text
                        \o Lit("\n\n")
                        \o Sections(fl, LinkGets)
        /\ Len(LinkGets) = Len(fl)

\* the same url classified twice, fetched twice with different outcomes
C8_Witness ==
    /\ LoopDone
    /\ Len(links) = 2
    /\ links[1] = links[2]
    /\ Len(LinkGets) = 2
    /\ LinkGets[1].url = LinkGets[2].url
    /\ LinkGets[1].site # LinkGets[2].site

\* C9: every fetch of a followed link comes right after exactly one delay
\* from [1, 2] seconds, whatever the fetch before it did; nothing else is
\* delayed, so a run takes as many delays as it follows links.
C9_DelayBeforeEachLinkFetch ==
    entry = "create_brochure" =>
      /\ \A k \in 1..Len(log) :
           /\ (IsGet(log[k]) /\ k > 2) =>
                /\ IsSleep(log[k - 1])
                /\ k > ClassifierAt + 1 /\ ClassifierAt > 0
           /\ IsSleep(log[k]) =>
                /\ log[k].d >= 10 /\ log[k].d <= 20
                /\ ~IsSleep(log[k - 1])
                /\ k < Len(log) => IsGet(log[k + 1])
           /\ (IsGet(log[k]) /\ k <= 2) => (k = 1 \/ IsGet(log[k - 1]))
           /\ IsChat(log[k], "classifier") => IsGet(log[k - 1])
      /\ Len(log) >= 2 => IsGet(log[1]) /\ IsGet(log[2])
      /\ pc = "b_loop" => Len(Sleeps) = Len(LinkGets)
      /\ pc = "b_follow" => Len(Sleeps) = Len(LinkGets) + 1
      /\ LoopDone => Len(Sleeps) = Len(SelectSeq(links, Followed))

\* a delay taken after a failed link fetch
C9_Witness ==
    /\ LoopDone
    /\ Len(Sleeps) = 2
    /\ ~LinkGets[1].ok
    /\ \E k \in 1..Len(log) : IsSleep(log[k]) /\ IsGet(log[k - 1]) /\ ~log[k - 1].ok

\* C10 as stated: once a GET of a url has failed, no further GET of that
\* url is issued in the invocation.
C10_NoSecondGetOfFailedUrl ==
    \A j \in 1..Len(log) : \A k \in 1..Len(log) :
      (j < k /\ IsGet(log[j]) /\ ~log[j].ok /\ IsGet(log[k])) =>
        log[k].url # log[j].url

\* C10 amended: no request is issued again because it failed. Each Website
\* construction issues one GET whatever its outcome, so a run's GETs are the
\* one of summarize, or the two of the landing url plus one per followed
\* link; each call site issues at most one completion call and a failed
\* completion call is the last I/O of the invocation.
C10_NoRetry ==
    LET gets == SelectSeq(log, IsGet)
        chats(c) == SelectSeq(log, LAMBDA e : IsChat(e, c))
    IN
    /\ entry = "summarize" =>
         /\ Len(gets) = (IF pc = "s_fetch" THEN 0 ELSE 1)
         /\ Len(chats("summary")) = (IF pc \in {"done", "raised"} THEN 1 ELSE 0)
    /\ entry = "create_brochure" =>
         /\ pc = "b_landing" => Len(gets) = 0
         /\ pc = "b_get_links" => Len(gets) = 1
         /\ pc = "b_classify" => Len(gets) = 2
         /\ (InLoop \/ LoopDone) =>
              Len(gets) = 2 + Len(SelectSeq(Handled, Followed))
         /\ Len(chats("classifier")) <= 1
         /\ Len(chats("brochure")) <= 1
    /\ \A k \in 1..Len(log) :
         (log[k].op = "chat" /\ ~log[k].ok) => k = Len(log)

\* the landing url fetched again after its first fetch failed, and a
\* completion call that failed
C10_Witness ==
    /\ entry = "create_brochure"
    /\ Len(log) >= 2
    /\ ~log[1].ok /\ IsGet(log[2]) /\ log[2].url = log[1].url
    /\ log[Len(log)].op = "chat" /\ ~log[Len(log)].ok

====
